---------------------------- MODULE Spec2Model ----------------------------
(***************************************************************************)
(* EME-32 (ECB-Mix-ECB) over a 128-bit block cipher, as implemented by     *)
(* src/src/lib.rs: the GF(2^128) doubling mult_by_2, the block XOR         *)
(* helpers, the block cipher adapter encrypt_aes and the three-pass        *)
(* transform eme_32_aes_enc.                                               *)
(*                                                                         *)
(* Bytes are integers 0..255, a block is a function 0..15 -> byte and the  *)
(* message buffers are functions 0..511 -> byte, indexed as in the source. *)
(* u8 arithmetic keeps its width: an overflowing `2 * x` or `x += 1`       *)
(* panics when the build has overflow checks (debug profile) and wraps     *)
(* otherwise (release profile); the build is chosen in Init.               *)
(*                                                                         *)
(* The block cipher (crate aesti) is an external collaborator.  It is      *)
(* represented by a keyed permutation of blocks that is not linear over    *)
(* XOR, and by aesti's key-length rule.                                    *)
(***************************************************************************)
EXTENDS Integers, Sequences, FiniteSets, TLC

\* ------------------------------------------------------------ constants
BLOCK == 16                \* bytes per block, [u8;16]
NBLK == 32                 \* blocks per message, the loops' upper bound
MSG == NBLK * BLOCK        \* [u8;512]
NBITS == 8 * BLOCK         \* bits per block
REDUCE == 135              \* the reduction constant 0x87
TOPBIT == 128              \* a byte with its top bit set is >= 128

\* ------------------------------------------------------------ bounds
NumInputs == 5             \* (key, tweak, plaintext) triples a call draws from
MaxCalls == 2              \* calls of eme_32_aes_enc in one behaviour
NumDblInputs == 6          \* start values of the doubling harness

Byte == 0 .. 255
BlkIdx == 0 .. (BLOCK - 1)
ZeroBlock == [i \in BlkIdx |-> 0]

\* ------------------------------------------------------------ u8 operations
RECURSIVE bitxor(_, _)
bitxor(a, b) ==
    IF a = 0 THEN b
    ELSE IF b = 0 THEN a
    ELSE 2 * bitxor(a \div 2, b \div 2) + ((a + b) % 2)

\* a ^ b on u8, tabulated once
XorTab == [a \in Byte |-> [b \in Byte |-> bitxor(a, b)]]

\* `2 * x` on u8: panics on overflow when the build checks overflow, else wraps
mul2_u8(x, checks) ==
    [ok |-> ~(checks /\ 2 * x > 255), v |-> (2 * x) % 256]

\* `x += 1` on u8
add1_u8(x, checks) ==
    [ok |-> ~(checks /\ x + 1 > 255), v |-> (x + 1) % 256]

\* ------------------------------------------------------------ Field Doubler
mult_by_2_noreduce(input, checks) ==
    LET b(jj) == mul2_u8(input[jj], checks)
        carry(jj) == jj >= 1 /\ input[jj - 1] >= TOPBIT
        inc(jj) == add1_u8(b(jj).v, checks)
    IN  [ok  |-> \A jj \in BlkIdx : b(jj).ok /\ (carry(jj) => inc(jj).ok),
         out |-> [jj \in BlkIdx |->
                    IF carry(jj) THEN inc(jj).v ELSE b(jj).v]]

mult_by_2_rotate(input, checks) ==
    LET b(jj) == mul2_u8(input[jj], checks)
        carry(jj) == jj >= 1 /\ input[jj - 1] >= TOPBIT
        inc(jj) == add1_u8(b(jj).v, checks)
    IN  [ok  |-> \A jj \in BlkIdx : b(jj).ok /\ (carry(jj) => inc(jj).ok),
         out |-> [jj \in BlkIdx |->
                    IF jj = 0
                    THEN IF input[BLOCK - 1] >= TOPBIT
                         THEN XorTab[b(0).v][1] ELSE b(0).v
                    ELSE IF carry(jj) THEN inc(jj).v ELSE b(jj).v]]

\* fn mult_by_2(out, input): [ok, out]; ok = FALSE when a u8 operation panics
mult_by_2(input, checks) ==
    LET b(jj) == mul2_u8(input[jj], checks)
        carry(jj) == jj >= 1 /\ input[jj - 1] >= TOPBIT
        inc(jj) == add1_u8(b(jj).v, checks)
    IN  [ok  |-> \A jj \in BlkIdx : b(jj).ok /\ (carry(jj) => inc(jj).ok),
         out |-> [jj \in BlkIdx |->
                    IF jj = 0
                    THEN IF input[BLOCK - 1] >= TOPBIT
                         THEN XorTab[b(0).v][REDUCE] ELSE b(0).v
                    ELSE IF carry(jj) THEN inc(jj).v ELSE b(jj).v]]

\* fn mult_by_2_ip(out): x = out.clone(); mult_by_2(out, &x)
mult_by_2_ip(out, checks) ==
    LET x == out IN mult_by_2(x, checks)

\* ------------------------------------------------------------ Block XOR
\* fn xor_blocks(out, in1, in2)
xor_blocks(in1, in2) == [i \in BlkIdx |-> XorTab[in1[i]][in2[i]]]

\* fn xor_blocks_ip(out, in2)
xor_blocks_ip(out, in2) == [i \in BlkIdx |-> XorTab[out[i]][in2[i]]]

\* ------------------------------------------------------------ Block cipher
\* aesti::Aes::with_key accepts AES-128/192/256 keys only
KeyValid(kv) == Len(kv) \in {16, 24, 32}

KeyByte(kv, i) == kv[(i % Len(kv)) + 1]

\* aes.encrypt: a keyed permutation of blocks (byte rotation, key addition
\* mod 256, an affine byte permutation), not linear over XOR
aes_encrypt(kv, input) ==
    [i \in BlkIdx |->
        (5 * ((input[(i + 1) % BLOCK] + KeyByte(kv, i)) % 256) + 3) % 256]

\* its inverse, the decrypt_block capability (205 * 5 = 1 mod 256)
aes_decrypt(kv, output) ==
    [i \in BlkIdx |->
        LET s == (i + BLOCK - 1) % BLOCK
        IN  (((205 * ((output[s] + 253) % 256)) % 256) + 256 - KeyByte(kv, s)) % 256]

\* fn encrypt_aes(out, k, input): Aes::with_key(k).unwrap() panics on a key
\* the cipher rejects
encrypt_aes(kv, input) ==
    IF KeyValid(kv)
    THEN [ok |-> TRUE, out |-> aes_encrypt(kv, input)]
    ELSE [ok |-> FALSE, out |-> input]

\* fn encrypt_aes_ip(out, k): x = out.clone(); encrypt_aes(out, k, &x)
encrypt_aes_ip(out, kv) ==
    LET x == out IN encrypt_aes(kv, x)

\* ------------------------------------------------------------ buffers
MsgIdx == 0 .. (MSG - 1)

\* index_fixed!(&buf[jj*16..]; ..16)
Blk(buf, jj) == [i \in BlkIdx |-> buf[jj * BLOCK + i]]

\* a write through index_fixed!(&mut c[jj*16..]; ..16)
SetBlk(buf, jj, blk) ==
    [n \in MsgIdx |-> IF n \div BLOCK = jj THEN blk[n % BLOCK] ELSE buf[n]]

\* c.split_at_mut(16), then index_fixed!(&c_rest[(jj-1)*16..]; ..16)
RestBlk(buf, jj) == [i \in BlkIdx |-> buf[BLOCK + (jj - 1) * BLOCK + i]]

\* ------------------------------------------------------------ inputs
Key32 == [n \in 1 .. 32 |-> (11 * n + 7) % 256]
KeyBad == [n \in 1 .. 15 |-> (3 * n) % 256]
KeySmall == [n \in 1 .. 16 |-> n % 4]
KeyWeak == [n \in 1 .. 24 |-> 153]
Key16 == [n \in 1 .. 16 |-> (29 * n + 1) % 64]

Tweak0 == [i \in BlkIdx |-> i]
Tweak1 == [i \in BlkIdx |-> (200 + 13 * i) % 256]

Plain0 == [n \in MsgIdx |-> (3 * n + 1) % 256]
Plain1 == [n \in MsgIdx |-> (n * n + 7 * (n \div BLOCK)) % 256]

InputOf(i) ==
    CASE i % 6 = 0 -> [k |-> Key32,    t |-> Tweak0, p |-> Plain0]
      [] i % 6 = 1 -> [k |-> KeySmall, t |-> Tweak1, p |-> Plain1]
      [] i % 6 = 2 -> [k |-> KeyBad,   t |-> Tweak0, p |-> Plain0]
      [] i % 6 = 3 -> [k |-> Key32,    t |-> Tweak1, p |-> Plain0]
      [] i % 6 = 4 -> [k |-> KeyWeak,  t |-> Tweak0, p |-> Plain1]
      [] OTHER     -> [k |-> Key16,    t |-> Tweak1, p |-> Plain1]

Inputs == {InputOf(i) : i \in 0 .. (NumInputs - 1)}

\* what the caller's output buffer may hold before its first call
PriorBufs == {[n \in MsgIdx |-> 0], [n \in MsgIdx |-> (7 * n + 85) % 256]}

DblInputOf(i) ==
    CASE i % 7 = 0 -> [n \in BlkIdx |-> IF n = 0 THEN 1 ELSE 0]
      [] i % 7 = 1 -> [n \in BlkIdx |-> IF n = BLOCK - 1 THEN 128 ELSE 0]
      [] i % 7 = 2 -> [n \in BlkIdx |-> IF n = 0 THEN 128 ELSE 0]
      [] i % 7 = 3 -> [n \in BlkIdx |-> 255]
      [] i % 7 = 4 -> [n \in BlkIdx |-> (17 * n + 3) % 256]
      [] i % 7 = 5 -> ZeroBlock
      [] OTHER     -> [n \in BlkIdx |-> (n * n + 90) % 256]

DblInputs == {DblInputOf(i) : i \in 0 .. (NumDblInputs - 1)}

\* ------------------------------------------------------------ state
VARIABLES
    overflow_checks,  \* the build: TRUE panics on u8 overflow, FALSE wraps
    pc,               \* position inside eme_32_aes_enc, or "idle"
    c, k, t, p,       \* the arguments of eme_32_aes_enc
    l, m, mp, mc, zero, j,   \* its locals
    outcome,          \* how the current or last call ended
    c_entry,          \* c as it was when the call was entered
    ncipher,          \* calls of encrypt_aes made by the current call
    ppp, ccc,         \* c as it stood after pass 1 and after pass 2
    used1, used3,     \* the masks pass 1 and pass 3 XORed, block by block
    hist,             \* the calls that ended: input, outcome, final c
    dx, dx0, din, dn, dst  \* doubling harness: value, start value, last input,
                           \* applications so far, status

vars == <<overflow_checks, pc, c, k, t, p, l, m, mp, mc, zero, j, outcome,
          c_entry, ncipher, ppp, ccc, used1, used3, hist, dx, dx0, din, dn, dst>>

callvars == <<pc, c, k, t, p, l, m, mp, mc, zero, j, outcome,
              c_entry, ncipher, ppp, ccc, used1, used3, hist>>
dblvars == <<dx, dx0, din, dn, dst>>

InitCall ==
    /\ pc = "idle"
    /\ c \in PriorBufs
    /\ k = <<>> /\ t = ZeroBlock /\ p = [n \in MsgIdx |-> 0]
    /\ l = ZeroBlock /\ m = ZeroBlock /\ mp = ZeroBlock /\ mc = ZeroBlock
    /\ zero = ZeroBlock /\ j = 0
    /\ outcome = "none"
    /\ c_entry = c
    /\ ncipher = 0
    /\ ppp = c /\ ccc = c
    /\ used1 = <<>> /\ used3 = <<>>
    /\ hist = <<>>

Init ==
    /\ overflow_checks \in BOOLEAN
    /\ InitCall
    /\ dx = ZeroBlock /\ dx0 = ZeroBlock /\ din = ZeroBlock /\ dn = 0 /\ dst = "ok"

\* ------------------------------------------------------------ eme_32_aes_enc
\* the call ends by unwinding from a panic; c keeps what was written so far
Panicked(why, cnow, n) ==
    /\ pc' = "panic"
    /\ outcome' = why
    /\ c' = cnow
    /\ ncipher' = n
    /\ hist' = Append(hist, [k |-> k, t |-> t, p |-> p, c_in |-> c_entry,
                          outcome |-> why, c |-> cnow])

\* entry: the caller passes c, k, t, p; the locals are zeroed (lines 103-108)
Call ==
    /\ pc = "idle"
    /\ Len(hist) < MaxCalls
    /\ \E inp \in Inputs :
         /\ k' = inp.k /\ t' = inp.t /\ p' = inp.p
    /\ l' = ZeroBlock /\ m' = ZeroBlock /\ mp' = ZeroBlock /\ mc' = ZeroBlock
    /\ zero' = ZeroBlock
    /\ j' = 0
    /\ c_entry' = c
    /\ ncipher' = 0
    /\ outcome' = "running"
    /\ used1' = <<>> /\ used3' = <<>>
    /\ pc' = "setup"
    /\ UNCHANGED <<overflow_checks, c, ppp, ccc, hist, dblvars>>

\* the first block index of the loops at lines 113 and 140
LoopFirstSkip == 0 + 1
Pass1First == 0
Pass3First == 0

\* lines 110-111: zero = AES-enc(k; 0), l = 2 * zero
Setup ==
    /\ pc = "setup"
    /\ LET e == encrypt_aes_ip(zero, k)
           d == mult_by_2(e.out, overflow_checks)
       IN  IF ~e.ok
           THEN /\ Panicked("panic_unwrap", c, ncipher + 1)
                /\ UNCHANGED <<zero, l, j>>
           ELSE IF ~d.ok
           THEN /\ Panicked("panic_overflow", c, ncipher + 1)
                /\ zero' = e.out
                /\ UNCHANGED <<l, j>>
           ELSE /\ zero' = e.out
                /\ l' = d.out
                /\ j' = Pass1First
                /\ pc' = "pass1"
                /\ ncipher' = ncipher + 1
                /\ UNCHANGED <<c, outcome, hist>>
    /\ UNCHANGED <<overflow_checks, k, t, p, m, mp, mc, c_entry, ppp, ccc,
                   used1, used3, dblvars>>

\* line 114-116: what pass 1 stores in block jj before the cipher call
Pass1XorPrior(cblk, pblk, lv) == xor_blocks_ip(cblk, xor_blocks(pblk, lv))
Pass1Xor(cblk, pblk, lv) == xor_blocks(pblk, lv)

\* lines 113-119, one iteration: c[j] = AES-enc(k; p[j] ^ l), l = 2 * l
Pass1Step ==
    /\ pc = "pass1"
    /\ LET x  == Pass1Xor(Blk(c, j), Blk(p, j), l)
           e  == encrypt_aes_ip(x, k)
           d  == mult_by_2_ip(l, overflow_checks)
           c1 == SetBlk(c, j, x)
           c2 == SetBlk(c, j, e.out)
       IN  IF ~e.ok
           THEN /\ Panicked("panic_unwrap", c1, ncipher + 1)
                /\ UNCHANGED <<l, j, used1, ppp>>
           ELSE IF ~d.ok
           THEN /\ Panicked("panic_overflow", c2, ncipher + 1)
                /\ used1' = Append(used1, l)
                /\ UNCHANGED <<l, j, ppp>>
           ELSE /\ c' = c2
                /\ l' = d.out
                /\ used1' = Append(used1, l)
                /\ ncipher' = ncipher + 1
                /\ j' = j + 1
                /\ pc' = IF j + 1 < NBLK THEN "pass1" ELSE "mix"
                /\ ppp' = IF j + 1 < NBLK THEN ppp ELSE c2
                /\ UNCHANGED <<outcome, hist>>
    /\ UNCHANGED <<overflow_checks, k, t, p, m, mp, mc, zero, c_entry, ccc,
                   used3, dblvars>>

\* lines 120-123: mp = c[0] ^ t ^ c[1] ^ ... ^ c[31]
RECURSIVE XorInto(_, _, _, _)
XorInto(acc, buf, from, to) ==
    IF from > to THEN acc
    ELSE XorInto(xor_blocks_ip(acc, Blk(buf, from)), buf, from + 1, to)

\* lines 120-125: mp, mc = AES-enc(k; mp), m = mp ^ mc
Mix ==
    /\ pc = "mix"
    /\ LET mp1 == XorInto(xor_blocks(Blk(c, 0), t), c, 1, NBLK - 1)
           e   == encrypt_aes(k, mp1)
       IN  IF ~e.ok
           THEN /\ Panicked("panic_unwrap", c, ncipher + 1)
                /\ mp' = mp1
                /\ UNCHANGED <<mc, m, j>>
           ELSE /\ mp' = mp1
                /\ mc' = e.out
                /\ m' = xor_blocks(mp1, e.out)
                /\ ncipher' = ncipher + 1
                /\ j' = 1
                /\ pc' = "pass2"
                /\ UNCHANGED <<c, outcome, hist>>
    /\ UNCHANGED <<overflow_checks, k, t, p, l, zero, c_entry, ppp, ccc,
                   used1, used3, dblvars>>

\* lines 126-129, one iteration: m = 2 * m, c[j] ^= m
Pass2Step ==
    /\ pc = "pass2"
    /\ LET d == mult_by_2_ip(m, overflow_checks)
       IN  IF ~d.ok
           THEN /\ Panicked("panic_overflow", c, ncipher)
                /\ UNCHANGED <<m, j>>
           ELSE /\ m' = d.out
                /\ c' = SetBlk(c, j, xor_blocks_ip(Blk(c, j), d.out))
                /\ j' = j + 1
                /\ pc' = IF j + 1 < NBLK THEN "pass2" ELSE "fix0"
                /\ UNCHANGED <<outcome, ncipher, hist>>
    /\ UNCHANGED <<overflow_checks, k, t, p, l, mp, mc, zero, c_entry, ppp,
                   ccc, used1, used3, dblvars>>

\* line 130: what block 0 is set to before the blocks 1..31 are folded in
Fix0StartNoTweak(mcv, tv) == mcv
Fix0Start(mcv, tv) == xor_blocks(mcv, tv)

RECURSIVE XorRest(_, _, _, _)
XorRest(acc, buf, from, to) ==
    IF from > to THEN acc
    ELSE XorRest(xor_blocks_ip(acc, RestBlk(buf, from)), buf, from + 1, to)

\* lines 130-138: c[0] = mc ^ t ^ c[1] ^ ... ^ c[31]
Fix0 ==
    /\ pc = "fix0"
    /\ c' = SetBlk(c, 0, XorRest(Fix0Start(mc, t), c, 1, NBLK - 1))
    /\ ccc' = c'
    /\ pc' = "reset"
    /\ UNCHANGED <<overflow_checks, k, t, p, l, m, mp, mc, zero, j, outcome,
                   c_entry, ncipher, ppp, used1, used3, hist, dblvars>>

\* line 139: reset l = 2 * AES-enc(k; 0)
ResetLNoDouble(zv, checks) == [ok |-> TRUE, out |-> zv]
ResetL(zv, checks) == mult_by_2(zv, checks)

Reset ==
    /\ pc = "reset"
    /\ LET d == ResetL(zero, overflow_checks)
       IN  IF ~d.ok
           THEN /\ Panicked("panic_overflow", c, ncipher)
                /\ UNCHANGED <<l, j>>
           ELSE /\ l' = d.out
                /\ j' = Pass3First
                /\ pc' = "pass3"
                /\ UNCHANGED <<c, outcome, ncipher, hist>>
    /\ UNCHANGED <<overflow_checks, k, t, p, m, mp, mc, zero, c_entry, ppp,
                   ccc, used1, used3, dblvars>>

\* lines 140-144, one iteration: c[j] = AES-enc(k; c[j]) ^ l, l = 2 * l
Pass3Step ==
    /\ pc = "pass3"
    /\ LET e  == encrypt_aes_ip(Blk(c, j), k)
           c1 == SetBlk(c, j, xor_blocks_ip(e.out, l))
           d  == mult_by_2_ip(l, overflow_checks)
       IN  IF ~e.ok
           THEN /\ Panicked("panic_unwrap", c, ncipher + 1)
                /\ UNCHANGED <<l, j, used3>>
           ELSE IF ~d.ok
           THEN /\ Panicked("panic_overflow", c1, ncipher + 1)
                /\ used3' = Append(used3, l)
                /\ UNCHANGED <<l, j>>
           ELSE /\ c' = c1
                /\ l' = d.out
                /\ used3' = Append(used3, l)
                /\ ncipher' = ncipher + 1
                /\ j' = j + 1
                /\ IF j + 1 < NBLK
                   THEN /\ pc' = "pass3"
                        /\ UNCHANGED <<outcome, hist>>
                   ELSE /\ pc' = "done"
                        /\ outcome' = "returned"
                        /\ hist' = Append(hist, [k |-> k, t |-> t, p |-> p,
                                                 c_in |-> c_entry,
                                                 outcome |-> "returned", c |-> c1])
    /\ UNCHANGED <<overflow_checks, k, t, p, m, mp, mc, zero, c_entry, ppp,
                   ccc, used1, dblvars>>

\* control is back with the caller, which owns c again
Return ==
    /\ pc \in {"done", "panic"}
    /\ pc' = "idle"
    /\ UNCHANGED <<overflow_checks, c, k, t, p, l, m, mp, mc, zero, j, outcome,
                   c_entry, ncipher, ppp, ccc, used1, used3, hist, dblvars>>

Next ==
    \/ Call
    \/ Setup
    \/ Pass1Step
    \/ Mix
    \/ Pass2Step
    \/ Fix0
    \/ Reset
    \/ Pass3Step
    \/ Return

Spec == Init /\ [][Next]_vars

\* ------------------------------------------------------------ doubling harness
InitDbl ==
    /\ overflow_checks \in BOOLEAN
    /\ InitCall
    /\ c = [n \in MsgIdx |-> 0]
    /\ dx \in DblInputs
    /\ dx0 = dx
    /\ din = dx
    /\ dn = 0
    /\ dst = "ok"

\* out-of-place: mult_by_2(&mut out, &dx), the result becomes the next input
MultBy2 ==
    /\ dst = "ok"
    /\ dn < NBITS
    /\ LET d == mult_by_2(dx, overflow_checks)
       IN  /\ din' = dx
           /\ dn' = dn + 1
           /\ dst' = IF d.ok THEN "ok" ELSE "panic"
           /\ dx' = IF d.ok THEN d.out ELSE dx
           /\ dx0' = dx0
    /\ UNCHANGED <<overflow_checks, callvars>>

\* in place: mult_by_2_ip(&mut dx)
MultBy2Ip ==
    /\ dst = "ok"
    /\ dn < NBITS
    /\ LET d == mult_by_2_ip(dx, overflow_checks)
       IN  /\ din' = dx
           /\ dn' = dn + 1
           /\ dst' = IF d.ok THEN "ok" ELSE "panic"
           /\ dx' = IF d.ok THEN d.out ELSE dx
           /\ dx0' = dx0
    /\ UNCHANGED <<overflow_checks, callvars>>

NextDbl ==
    \/ MultBy2
    \/ MultBy2Ip

SpecDbl == InitDbl /\ [][NextDbl]_vars

\* ------------------------------------------------------------ reference
\* Multiplication by X in GF(2^128), stated on bits.  Bit n of a block is bit
\* n % 8 of byte n \div 8: byte 0 is the least significant byte.
BitOf(x, n) == (x[n \div 8] \div (2 ^ (n % 8))) % 2

RECURSIVE ByteOfBits(_, _, _)
ByteOfBits(bit(_), i, b) ==
    IF b > 7 THEN 0 ELSE bit(8 * i + b) * (2 ^ b) + ByteOfBits(bit, i, b + 1)

\* every bit moves one place up; bit 0 becomes 0; bit 127 is dropped
ShiftLeftLE(x) ==
    LET bit(n) == IF n = 0 THEN 0 ELSE BitOf(x, n - 1)
    IN  [i \in BlkIdx |-> ByteOfBits(bit, i, 0)]

\* X^128 = X^7 + X^2 + X + 1: the dropped bit comes back as 0x87 in byte 0
GFDouble(x) ==
    LET s == ShiftLeftLE(x)
    IN  IF BitOf(x, 127) = 1 THEN [s EXCEPT ![0] = XorTab[s[0]][135]] ELSE s

\* a block written out byte by byte, so that each value is computed once
Bytes16(x) ==
    (0 :> x[0]) @@ (1 :> x[1]) @@ (2 :> x[2]) @@ (3 :> x[3]) @@
    (4 :> x[4]) @@ (5 :> x[5]) @@ (6 :> x[6]) @@ (7 :> x[7]) @@
    (8 :> x[8]) @@ (9 :> x[9]) @@ (10 :> x[10]) @@ (11 :> x[11]) @@
    (12 :> x[12]) @@ (13 :> x[13]) @@ (14 :> x[14]) @@ (15 :> x[15])

\* <<x, 2x, 4x, ...>>: n entries, each the doubling by dbl of the one before
RECURSIVE DoubleSeq(_, _, _)
DoubleSeq(dbl(_), x, n) ==
    IF n = 0 THEN <<>>
    ELSE LET y == Bytes16(x)
         IN  <<y>> \o DoubleSeq(dbl, dbl(y), n - 1)

\* the shift read the other way round: the bit shifted out of byte i + 1 is
\* carried into byte i, the byte before it
ShiftLeftCarryToPrevious(x) ==
    LET s == [i \in BlkIdx |->
                 ((2 * x[i]) % 256)
                 + (IF i < 15 /\ x[i + 1] >= 128 THEN 1 ELSE 0)]
    IN  IF x[15] >= 128 THEN [s EXCEPT ![0] = XorTab[s[0]][135]] ELSE s

\* ------------------------------------------------------------ Field Doubler claims
\* C8 as stated: mult_by_2 returns the input shifted left by one bit with the
\* bit shifted out of each byte carried into the previous byte (index one
\* lower), byte 0 XORed with 0x87 when the top bit of byte 15 is set.
C8_CarryIntoPreviousByte ==
    (dn >= 1 /\ dst = "ok") => dx = ShiftLeftCarryToPrevious(din)

\* C8 amended: whenever mult_by_2 returns, its result is the input shifted
\* left by one bit as a 128-bit little-endian bit string: the bit shifted out
\* of each byte is carried into the next byte (index one higher), and byte 0
\* is XORed with 0x87 exactly when the top bit of input byte 15 is set.
C8_CarryIntoNextByte ==
    (dn >= 1 /\ dst = "ok") => dx = GFDouble(din)

C8_Witness ==
    /\ dn >= 1 /\ dst = "ok"
    /\ din[15] >= 128
    /\ \E i \in 0 .. 14 : din[i] >= 128 /\ dx[i + 1] % 2 = 1
    /\ dx[0] # (2 * din[0]) % 256

\* C9: mult_by_2 and mult_by_2_ip have no error condition: every application
\* completes without an arithmetic-overflow failure and returns a value.
C9_NoOverflowFailure ==
    dn >= 1 => dst = "ok"

\* C10 as stated: applying mult_by_2 128 times to a nonzero x returns x.
C10_CycleOf128 ==
    (dn = NBITS /\ dst = "ok" /\ dx0 # ZeroBlock) => dx = dx0

\* x times X^7 + X^2 + X + 1, the residue of X^128
GFTimesX128(x) ==
    LET x1 == Bytes16(GFDouble(x))
        x2 == Bytes16(GFDouble(x1))
        x7 == DoubleSeq(GFDouble, x2, 6)[6]
    IN  [i \in BlkIdx |-> XorTab[XorTab[x[i]][x1[i]]][XorTab[x2[i]][x7[i]]]]

\* C10 amended: applying mult_by_2 128 times to a nonzero x never returns x;
\* the result is x multiplied by X^128 = X^7 + X^2 + X + 1.
C10_NoCycleOf128 ==
    (dn = NBITS /\ dst = "ok" /\ dx0 # ZeroBlock) =>
        /\ dx # dx0
        /\ dx = GFTimesX128(dx0)

C10_Witness ==
    dn = NBITS /\ dst = "ok" /\ dx0 # ZeroBlock /\ ~overflow_checks

\* ------------------------------------------------------------ transform claims
\* the XOR of the blocks f[from], ..., f[to] of a family of blocks
RECURSIVE XorSum(_, _, _)
XorSum(f, from, to) ==
    IF from > to THEN ZeroBlock
    ELSE LET rest == XorSum(f, from + 1, to)
         IN  [i \in BlkIdx |-> XorTab[f[from][i]][rest[i]]]

Blocks(buf) == [jj \in 0 .. (NBLK - 1) |-> Blk(buf, jj)]

\* the masks 2 E(0), 4 E(0), ..., 2^32 E(0) under key kv; entry jj + 1 is block jj's
MaskSeq(kv) == DoubleSeq(GFDouble, GFDouble(aes_encrypt(kv, ZeroBlock)), NBLK)

\* the same, tabulated once for the keys the calls draw from
KeyMasks == [kv \in {inp.k : inp \in Inputs} |-> MaskSeq(kv)]

\* The decrypt transform of section 4.5 (not in the source): the three passes
\* in reverse, decrypt_block in place of encrypt_block, MC recovered from
\* the XOR of the CCC blocks and the tweak.
eme_decrypt(kv, tv, cv) ==
    LET dbl(x) == mult_by_2(x, FALSE).out
        L    == DoubleSeq(dbl, dbl(aes_encrypt(kv, ZeroBlock)), NBLK)
        CCC  == [jj \in 0 .. (NBLK - 1) |->
                    aes_decrypt(kv, xor_blocks(Blk(cv, jj), L[jj + 1]))]
        MC   == xor_blocks(tv, XorSum(CCC, 0, NBLK - 1))
        MP   == aes_decrypt(kv, MC)
        M    == DoubleSeq(dbl, dbl(xor_blocks(MP, MC)), NBLK - 1)
        PPP1 == [jj \in 1 .. (NBLK - 1) |-> xor_blocks(CCC[jj], M[jj])]
        PPP0 == xor_blocks(xor_blocks(MP, tv), XorSum(PPP1, 1, NBLK - 1))
        P    == [jj \in 0 .. (NBLK - 1) |->
                    xor_blocks(aes_decrypt(kv, IF jj = 0 THEN PPP0 ELSE PPP1[jj]),
                               L[jj + 1])]
    IN  [n \in MsgIdx |-> P[n \div BLOCK][n % BLOCK]]

\* C1: inverse law.  Whenever eme_32_aes_enc returns, decrypting its output
\* under the same key and tweak gives back the plaintext.
C1_InverseLaw ==
    pc = "done" => eme_decrypt(k, t, c) = p

C1_Witness ==
    pc = "done" /\ c # p /\ eme_decrypt(k, t, c) = p /\ zero # ZeroBlock

\* C2: with a key the cipher rejects, the call ends in an InvalidKey error
\* value handed to the caller; it does not abort.
C2_InvalidKeyIsErrorValue ==
    (pc \in {"done", "panic"} /\ ~KeyValid(k)) => outcome = "err_invalid_key"

\* C3: all-or-nothing.  Whenever the call ends in an error, the output buffer
\* c is byte for byte what it was before the call.
C3_AllOrNothing ==
    pc = "panic" => c = c_entry

\* C4: the result is a function of (K, T, P) alone.  Any two calls that ended
\* with equal key, tweak and plaintext ended the same way and, when they
\* returned, left the same 512 bytes in c, whatever c held before.
C4_PureFunction ==
    \A a, b \in 1 .. Len(hist) :
        (hist[a].k = hist[b].k /\ hist[a].t = hist[b].t /\ hist[a].p = hist[b].p)
        => /\ hist[a].outcome = hist[b].outcome
           /\ hist[a].outcome = "returned" => hist[a].c = hist[b].c

C4_Witness ==
    \E a, b \in 1 .. Len(hist) :
        /\ a < b
        /\ hist[a].k = hist[b].k /\ hist[a].t = hist[b].t /\ hist[a].p = hist[b].p
        /\ hist[a].outcome = "returned" /\ hist[b].outcome = "returned"
        /\ \A n \in MsgIdx : hist[a].c_in[n] # hist[b].c_in[n]
        /\ hist[a].c = hist[b].c

\* C5 as stated: a call makes at most 32 block-cipher invocations.
C5_AtMost32CipherCalls ==
    ncipher <= NBLK

\* C5 amended: a call makes at most 2 * 32 + 2 = 66 block-cipher invocations
\* (one for the zero block, 32 in pass 1, one for MC, 32 in pass 3), and a
\* call that returns has made exactly 66.
C5_AtMost66CipherCalls ==
    /\ ncipher <= 2 * NBLK + 2
    /\ pc = "done" => ncipher = 2 * NBLK + 2

C5_Witness ==
    pc = "done" /\ ncipher = 2 * NBLK + 2

\* C6: mask lockstep.  Pass 1 and pass 3 both start from 2 E(0); the mask of
\* block jj is 2^(jj+1) E(0) in both; pass 1 XORs it into P[jj] before the
\* cipher call, pass 3 XORs it onto E(CCC[jj]) after the cipher call; L is
\* doubled once after each block.
C6_MaskLockstep ==
    LET masks == KeyMasks[k]
    IN  /\ \A n \in 1 .. Len(used1) : used1[n] = masks[n]
        /\ \A n \in 1 .. Len(used3) : used3[n] = masks[n] /\ used3[n] = used1[n]
        /\ pc \in {"pass1", "mix"} =>
             /\ Len(used1) = j
             /\ \A jj \in 0 .. (j - 1) :
                  Blk(c, jj) = aes_encrypt(k, xor_blocks(Blk(p, jj), masks[jj + 1]))
             /\ j < NBLK => l = masks[j + 1]
        /\ pc \in {"pass3", "done"} =>
             /\ Len(used3) = j
             /\ \A jj \in 0 .. (j - 1) :
                  Blk(c, jj) = xor_blocks(aes_encrypt(k, Blk(ccc, jj)), masks[jj + 1])
             /\ j < NBLK => l = masks[j + 1]

C6_Witness ==
    /\ pc = "done"
    /\ Len(used1) = NBLK /\ Len(used3) = NBLK
    /\ used1 = used3
    /\ used1[1] # ZeroBlock
    /\ used1[NBLK] = KeyMasks[k][NBLK]

\* C7: mixing and pass 2.  With MP = T xor PPP[0] xor ... xor PPP[31],
\* MC = E(MP) and M = MP xor MC, the buffer after pass 2 holds
\* CCC[jj] = PPP[jj] xor 2^jj M for jj in 1..31 and
\* CCC[0] = MC xor T xor CCC[1] xor ... xor CCC[31], so the XOR of all 32 CCC
\* blocks is MC xor T.
C7_MixAndPass2 ==
    pc = "reset" =>
        LET PPP == Blocks(ppp)
            CCC == Blocks(c)
            MP  == xor_blocks(t, XorSum(PPP, 0, NBLK - 1))
            MC  == aes_encrypt(k, MP)
            M   == DoubleSeq(GFDouble, GFDouble(xor_blocks(MP, MC)), NBLK - 1)
        IN  /\ mp = MP /\ mc = MC
            /\ \A jj \in 1 .. (NBLK - 1) : CCC[jj] = xor_blocks(PPP[jj], M[jj])
            /\ CCC[0] = xor_blocks(xor_blocks(MC, t), XorSum(CCC, 1, NBLK - 1))
            /\ XorSum(CCC, 0, NBLK - 1) = xor_blocks(MC, t)

C7_Witness ==
    /\ pc = "reset"
    /\ xor_blocks(mp, mc) # ZeroBlock
    /\ t # ZeroBlock
    /\ Blk(c, 1) # Blk(ppp, 1)
    /\ Blk(c, 0) # Blk(ppp, 0)

=============================================================================
